---- MODULE Spec2Model ----
(***************************************************************************)
(* mismo.cluster.connected_components: the iterative min-label             *)
(* propagation over an edge table, and the augmentation of the labelling   *)
(* with the nodes of a universe that occur in no edge.                     *)
(*                                                                         *)
(* A table is a bag of rows (Bags): an edge row is <<record_id_l,          *)
(* record_id_r>>, a labelling row is <<record_id, component>>, an update   *)
(* map row is <<component_old, component>>.  Row order is never observable *)
(* in the code except through ibis.row_number(), which is modelled as a    *)
(* choice of the order of the rows it numbers.                             *)
(***************************************************************************)
EXTENDS Bags, FiniteSets, Integers, Sequences, TLC

\* Bounds of the model: identifiers, rows of the edge table, values of
\* max_iter; rows of the universe table and of the edge table of the runs
\* that are given a universe.
NumIds == 4
MaxEdges == 3
MaxIter == 2
MaxNodes == 2
MaxEdgesWithNodes == 2

\* Rows of the edge table of the runs whose edge table can lack a column.
MaxEdgesAnyColumns == 1

\* set_cover: the elements a link can be, and the sets given.
NumElems == 3
MaxSets == 2

\* _updated_labels called alone: the codes of the nodes, and the rows of
\* the edge table.
NumCodes == 3
MaxEdgesAlone == 2

\* The edges of the longest chain given as input.
MaxChain == 7

\* Python's None (max_iter=None; the scalar of an aggregate over no rows).
None == -1
\* The NULL a left join leaves in the columns of an unmatched row.
NULL == -2
\* The component of a row whose label was computed from a NaN scalar.
NaN == -3

VARIABLES
    edge_columns, \* the names of the columns of the `edges` argument
    raw_edges,   \* the `edges` argument: bag of <<record_id_l, record_id_r>>
    max_iter,    \* the `max_iter` argument: None or an integer
    nodes,       \* the `nodes` argument, read at line 90: [given, columns, rows]
    pc,          \* position in connected_components
    f,           \* the Factorizer mapping: identifier -> code
    edges,       \* the integer edge table of _connected_components_ints
    labels,      \* the current labelling of the loop
    i,           \* the loop counter of count(1)
    state,       \* Propagating, Converged or MaxIterReached
    int_labels,  \* the labelling _connected_components_ints returned
    result,      \* the labelling connected_components holds / returns
    err,         \* the exception raised, "" if none
    universe,    \* set_cover: the `universe` argument, duplicates dropped
    sets,        \* set_cover: the `sets` argument, a list of sets of links
    candidates,  \* set_cover: the list of LinkSets not chosen yet
    uncovered,   \* set_cover: the elements of the universe not covered yet
    set_cover_result, \* set_cover: the list `result` of chosen indexes
    set_cover_pc, \* position in set_cover
    returned_labels \* the table _updated_labels returns when it is called alone

\* The variables of set_cover.
set_cover_vars ==
    <<universe, sets, candidates, uncovered, set_cover_result, set_cover_pc>>

vars == <<edge_columns, raw_edges, max_iter, nodes, pc, f, edges, labels, i,
          state, int_labels, result, err, universe, sets, candidates,
          uncovered, set_cover_result, set_cover_pc, returned_labels>>

----------------------------------------------------------------------------
\* Helpers on sets, sequences and bags.

Min(S) == CHOOSE m \in S : \A y \in S : m <= y

Max(S) == CHOOSE m \in S : \A y \in S : m >= y

Range(s) == {s[k] : k \in DOMAIN s}

SeqToBag(s) == [x \in Range(s) |-> Cardinality({k \in DOMAIN s : s[k] = x})]

SeqsUpTo(S, n) == UNION {[1..k -> S] : k \in 0..n}

BagsUpTo(S, n) == {SeqToBag(s) : s \in SeqsUpTo(S, n)}

\* Table.count()
Count(t) == BagCardinality(t)

----------------------------------------------------------------------------
\* Inputs.

Ids == 1..NumIds

\* The edges of the docstring example, a b c g h x y z numbered 1..8 in
\* their value order.
ExampleEdges ==
    SetToBag({<<1, 6>>, <<2, 6>>, <<2, 7>>, <<3, 7>>, <<3, 8>>, <<4, 5>>})

\* The chain 1 - 2 - ... - (k + 1) of k edges; the codes increase along it.
Chain(k) == SetToBag({<<j, j + 1>> : j \in 1..k})

LongChains == {Chain(k) : k \in (MaxEdges + 1)..MaxChain}

\* A star of five nodes beside a path of four nodes: the component with the
\* most nodes has diameter 2, the smaller one diameter 3.
StarAndPath ==
    SetToBag({<<1, 2>>, <<1, 3>>, <<1, 4>>, <<1, 5>>,
              <<6, 7>>, <<7, 8>>, <<8, 9>>})

EdgeInputs ==
    BagsUpTo(Ids \X Ids, MaxEdges) \cup {ExampleEdges, StarAndPath} \cup LongChains

EdgeInputsWithNodes == BagsUpTo(Ids \X Ids, MaxEdgesWithNodes) \cup {ExampleEdges}

EdgeInputsAnyColumns == BagsUpTo(Ids \X Ids, MaxEdgesAnyColumns) \cup {ExampleEdges}

MaxIterInputs == {None} \cup (0..MaxIter)

NodesInputs == BagsUpTo(Ids, MaxNodes)

\* The distinct identifiers occurring as an endpoint of an edge table.
Endpoints(es) == {e[1] : e \in BagToSet(es)} \cup {e[2] : e \in BagToSet(es)}

----------------------------------------------------------------------------
\* Factorizer: dense codes in [0, N) for the distinct identifiers, in value
\* order (dense_rank), and the two directions of the mapping.

Factorizer(ids) == [x \in ids |-> Cardinality({y \in ids : y < x})]

encode(m, t) == BagOfAll(LAMBDA e : <<m[e[1]], m[e[2]]>>, t)

decode(m, t) ==
    BagOfAll(LAMBDA r : <<CHOOSE x \in DOMAIN m : m[x] = r[1], r[2]>>, t)

\* _intify_edges: the integer edges and the mapping `restore` closes over.
_intify_edges(raw) ==
    LET all_node_ids == Endpoints(raw)
        m == Factorizer(all_node_ids)
    IN  [edges |-> encode(m, raw), f |-> m]

----------------------------------------------------------------------------
\* The propagation round.

\* The labelling of the left endpoints alone.
_get_initial_labels_left_only(es) ==
    SetToBag({<<e[1], e[1]>> : e \in BagToSet(es)})

\* The union that keeps duplicates: a row per endpoint of every edge row.
_get_initial_labels_union_all(es) ==
    BagOfAll(LAMBDA e : <<e[1], e[1]>>, es) (+) BagOfAll(LAMBDA e : <<e[2], e[2]>>, es)

\* ibis.union(labels_left, labels_right, distinct=True)
_get_initial_labels(es) ==
    LET labels_left  == {<<e[1], e[1]>> : e \in BagToSet(es)}
        labels_right == {<<e[2], e[2]>> : e \in BagToSet(es)}
    IN  SetToBag(labels_left \cup labels_right)

\* The second join made on record_id_l again: every pair is (l, l).
_get_component_equivalences_left_twice(es, node_labels) ==
    LET same_components ==
            {q \in BagToSet(es) \X BagToSet(node_labels) \X BagToSet(node_labels) :
                /\ q[1][1] = q[2][1]
                /\ q[1][1] = q[3][1]}
    IN  SetToBag({<<q[2][2], q[3][2]>> : q \in same_components})

\* Both joins are on the endpoint's record_id; the final distinct() drops
\* the multiplicities of the joined rows.
_get_component_equivalences(es, node_labels) ==
    LET same_components ==
            {q \in BagToSet(es) \X BagToSet(node_labels) \X BagToSet(node_labels) :
                /\ q[1][1] = q[2][1]     \* edges.record_id_l == record_id
                /\ q[1][2] = q[3][1]}    \* record_id_r == record_id
    IN  SetToBag({<<q[2][2], q[3][2]>> : q \in same_components})

\* The right component taken as the representative, whichever is less.
component_r(a, b) == b

\* The greater of the two taken as the representative.
greatest(a, b) == IF a >= b THEN a ELSE b

\* ibis.least
least(a, b) == IF a <= b THEN a ELSE b

\* The min taken over the whole table instead of per component_old.
_get_component_update_map_global_min(component_equivalences) ==
    LET m  == BagToSet(component_equivalences)
        ml == {<<r[1], least(r[1], r[2])>> : r \in m}
        mr == {<<r[2], least(r[1], r[2])>> : r \in m}
        together == ml \cup mr
        olds == {r[1] : r \in together}
    IN  SetToBag({<<o, Min({r[2] : r \in together})>> : o \in olds})

\* The update map made of the right sides of the pairs alone.
_get_component_update_map_right_only(component_equivalences) ==
    LET m  == BagToSet(component_equivalences)
        mr == {<<r[2], least(r[1], r[2])>> : r \in m}
        olds == {r[1] : r \in mr}
    IN  SetToBag({<<o, Min({r[2] : r \in {t \in mr : t[1] = o}})>> :
                    o \in olds})

\* The update map made of the left sides of the pairs alone.
_get_component_update_map_left_only(component_equivalences) ==
    LET m  == BagToSet(component_equivalences)
        ml == {<<r[1], least(r[1], r[2])>> : r \in m}
        olds == {r[1] : r \in ml}
    IN  SetToBag({<<o, Min({r[2] : r \in {t \in ml : t[1] = o}})>> :
                    o \in olds})

\* The update map with the two sides exchanged: a component is sent to the
\* component on the other side of the pair.
_get_component_update_map_other_side(component_equivalences) ==
    LET m  == BagToSet(component_equivalences)
        ml == {<<r[1], r[2]>> : r \in m}
        mr == {<<r[2], r[1]>> : r \in m}
        together == ml \cup mr
        olds == {r[1] : r \in together}
    IN  SetToBag({<<o, Min({r[2] : r \in {t \in together : t[1] = o}})>> :
                    o \in olds})

\* Without the group_by: a row per (component_old, representative) pair.
_get_component_update_map_no_group_by(component_equivalences) ==
    LET m  == BagToSet(component_equivalences)
        ml == {<<r[1], least(r[1], r[2])>> : r \in m}
        mr == {<<r[2], least(r[1], r[2])>> : r \in m}
    IN  SetToBag(ml \cup mr)

\* Rows <<component_old, component>>: one row per component_old, holding
\* the least representative of the pairs it occurs in.
_get_component_update_map(component_equivalences) ==
    LET m  == BagToSet(component_equivalences)
        ml == {<<r[1], least(r[1], r[2])>> : r \in m}
        mr == {<<r[2], least(r[1], r[2])>> : r \in m}
        together == ml \cup mr
        olds == {r[1] : r \in together}
    IN  SetToBag({<<o, Min({r[2] : r \in {t \in together : t[1] = o}})>> :
                    o \in olds})

\* The old component selected after the join instead of the new one.
_updated_labels_component_old(node_labels, es) ==
    LET component_mapping ==
            _get_component_update_map(_get_component_equivalences(es, node_labels))
        pairs == {p \in BagToSet(node_labels) \X BagToSet(component_mapping) :
                    p[1][2] = p[2][1]}
        matched == [p \in pairs |-> node_labels[p[1]] * component_mapping[p[2]]]
    IN  BagOfAll(LAMBDA p : <<p[1][1], p[2][1]>>, matched)

\* Two propagation steps in one round.
_updated_labels_two_steps(node_labels, es) ==
    LET step(lbls) ==
            LET component_mapping ==
                    _get_component_update_map(_get_component_equivalences(es, lbls))
                pairs == {p \in BagToSet(lbls) \X BagToSet(component_mapping) :
                            p[1][2] = p[2][1]}
                matched == [p \in pairs |-> lbls[p[1]] * component_mapping[p[2]]]
            IN  BagOfAll(LAMBDA p : <<p[1][1], p[2][2]>>, matched)
    IN  step(step(node_labels))

\* The left join of the labelling with the update map on component_old:
\* a row per matching pair, and a row with a NULL component for a
\* labelling row that matches nothing.
_updated_labels(node_labels, es) ==
    LET component_equivalences == _get_component_equivalences(es, node_labels)
        component_mapping == _get_component_update_map(component_equivalences)
        pairs == {p \in BagToSet(node_labels) \X BagToSet(component_mapping) :
                    p[1][2] = p[2][1]}
        matched == [p \in pairs |-> node_labels[p[1]] * component_mapping[p[2]]]
        lonely == {r \in BagToSet(node_labels) :
                     \A c \in BagToSet(component_mapping) : c[1] # r[2]}
        unmatched == [r \in lonely |-> node_labels[r]]
    IN  BagOfAll(LAMBDA p : <<p[1][1], p[2][2]>>, matched)
            (+) BagOfAll(LAMBDA r : <<r[1], NULL>>, unmatched)

\* The condition taken with equal components: the unchanged rows are counted.
_n_updates_same_component(old_labels, new_labels) ==
    LET pairs == {p \in BagToSet(old_labels) \X BagToSet(new_labels) :
                    /\ p[1][1] = p[2][1]
                    /\ p[1][2] # NULL /\ p[2][2] # NULL
                    /\ p[1][2] = p[2][2]}
    IN  BagCardinality([p \in pairs |-> old_labels[p[1]] * new_labels[p[2]]])

\* The join made on equal record_id alone: every row counts as an update.
_n_updates_any_row(old_labels, new_labels) ==
    LET pairs == {p \in BagToSet(old_labels) \X BagToSet(new_labels) :
                    p[1][1] = p[2][1]}
    IN  BagCardinality([p \in pairs |-> old_labels[p[1]] * new_labels[p[2]]])

\* The rows of the join of the two labellings on equal record_id and
\* different component; a comparison with NULL is not true.
_n_updates(old_labels, new_labels) ==
    LET pairs == {p \in BagToSet(old_labels) \X BagToSet(new_labels) :
                    /\ p[1][1] = p[2][1]
                    /\ p[1][2] # NULL /\ p[2][2] # NULL
                    /\ p[1][2] # p[2][2]}
    IN  BagCardinality([p \in pairs |-> old_labels[p[1]] * new_labels[p[2]]])

----------------------------------------------------------------------------
\* The augmentation with the universe's nodes.

\* The orders in which the rows of a table can be read (and numbered by
\* ibis.row_number()).
RowOrders(t) == {s \in [1..Count(t) -> BagToSet(t)] : SeqToBag(s) = t}

\* labels.component.max().execute(): None over no rows.
max_existing_label(lbls) ==
    IF BagToSet(lbls) = {} THEN None ELSE Max({r[2] : r \in BagToSet(lbls)})

\* The offset without its 1: the first added label is the greatest existing one.
_get_additional_labels_no_offset(lbls, nodes_rows) ==
    LET is_missing_label(x) == x \notin {r[1] : r \in BagToSet(lbls)}
        missing == SelectSeq(nodes_rows, is_missing_label)
    IN  SeqToBag([k \in DOMAIN missing |->
                    <<missing[k], (k - 1) + max_existing_label(lbls)>>])

\* Without the is_missing_label filter: every row of `nodes` gets a label.
_get_additional_labels_unfiltered(lbls, nodes_rows) ==
    SeqToBag([k \in DOMAIN nodes_rows |->
                <<nodes_rows[k], (k - 1) + (1 + max_existing_label(lbls))>>])

\* row_number() taken to number the rows from 1.
_get_additional_labels_from_one(lbls, nodes_rows) ==
    LET is_missing_label(x) == x \notin {r[1] : r \in BagToSet(lbls)}
        missing == SelectSeq(nodes_rows, is_missing_label)
    IN  SeqToBag([k \in DOMAIN missing |->
                    <<missing[k], k + (1 + max_existing_label(lbls))>>])

\* The filter made against the component column of the labelling.
_get_additional_labels_notin_component(lbls, nodes_rows) ==
    LET is_missing_label(x) == x \notin {r[2] : r \in BagToSet(lbls)}
        missing == SelectSeq(nodes_rows, is_missing_label)
    IN  SeqToBag([k \in DOMAIN missing |->
                    <<missing[k], (k - 1) + (1 + max_existing_label(lbls))>>])

\* The offset taken from the least existing label.
_get_additional_labels_from_min(lbls, nodes_rows) ==
    LET is_missing_label(x) == x \notin {r[1] : r \in BagToSet(lbls)}
        missing == SelectSeq(nodes_rows, is_missing_label)
    IN  SeqToBag([k \in DOMAIN missing |->
                    <<missing[k], (k - 1) + (1 + Min({r[2] : r \in BagToSet(lbls)}))>>])

\* nodes_rows: the record_id column of `nodes`, in the order its rows are
\* read.  row_number() numbers the rows that pass the filter, from 0.
_get_additional_labels(lbls, nodes_rows) ==
    LET is_missing_label(x) == x \notin {r[1] : r \in BagToSet(lbls)}
        missing == SelectSeq(nodes_rows, is_missing_label)
    IN  SeqToBag([k \in DOMAIN missing |->
                    <<missing[k], (k - 1) + (1 + max_existing_label(lbls))>>])

\* labels.union(additional_labels): a union that keeps duplicates
_add_labels_for_missing_nodes(lbls, nodes_rows) ==
    lbls (+) _get_additional_labels(lbls, nodes_rows)

----------------------------------------------------------------------------
\* connected_components as a state machine.

\* set_cover is not called.
SetCoverNotCalled ==
    /\ universe = {}
    /\ sets = <<>>
    /\ candidates = <<>>
    /\ uncovered = {}
    /\ set_cover_result = <<>>
    /\ set_cover_pc = "idle"

NoNodes == [given |-> FALSE, columns |-> {}, rows |-> EmptyBag]

\* The columns _intify_edges requires of the edge table.
EdgeColumns == {"record_id_l", "record_id_r"}

Init ==
    /\ edge_columns = EdgeColumns
    /\ raw_edges \in EdgeInputs
    /\ max_iter \in MaxIterInputs
    /\ nodes = NoNodes
    /\ pc = "intify"
    /\ f = <<>>
    /\ edges = EmptyBag
    /\ labels = EmptyBag
    /\ i = 0
    /\ state = "Propagating"
    /\ int_labels = EmptyBag
    /\ result = EmptyBag
    /\ err = ""
    /\ SetCoverNotCalled
    /\ returned_labels = EmptyBag

\* The check made of record_id_l alone.
IntifyEdgesChecksLeftOnly ==
    /\ pc = "intify"
    /\ IF "record_id_l" \notin edge_columns
       THEN /\ err' = "ValueError"
            /\ pc' = "error"
            /\ UNCHANGED <<edges, f>>
       ELSE /\ edges' = _intify_edges(raw_edges).edges
            /\ f' = _intify_edges(raw_edges).f
            /\ pc' = "initial_labels"
            /\ UNCHANGED err
    /\ UNCHANGED <<edge_columns, raw_edges, max_iter, nodes, labels, i, state,
                   int_labels, result>>
    /\ UNCHANGED <<set_cover_vars, returned_labels>>

\* line 87: _intify_edges raises ValueError (lines 160-164) when one of the
\* two columns is missing, and encodes the edges otherwise.
IntifyEdges ==
    /\ pc = "intify"
    /\ IF "record_id_l" \notin edge_columns \/ "record_id_r" \notin edge_columns
       THEN /\ err' = "ValueError"
            /\ pc' = "error"
            /\ UNCHANGED <<edges, f>>
       ELSE /\ edges' = _intify_edges(raw_edges).edges
            /\ f' = _intify_edges(raw_edges).f
            /\ pc' = "initial_labels"
            /\ UNCHANGED err
    /\ UNCHANGED <<edge_columns, raw_edges, max_iter, nodes, labels, i, state,
                   int_labels, result>>
    /\ UNCHANGED <<set_cover_vars, returned_labels>>

\* line 99, and the first value of count(1)
GetInitialLabels ==
    /\ pc = "initial_labels"
    /\ labels' = _get_initial_labels(edges)
    /\ i' = 1
    /\ pc' = "round"
    /\ UNCHANGED <<edge_columns, raw_edges, max_iter, nodes, f, edges, state,
                   int_labels, result, err>>
    /\ UNCHANGED <<set_cover_vars, returned_labels>>

\* The next value of count(1).  Beyond MaxIter the counter decides no
\* comparison with max_iter any more, and is kept at MaxIter + 1.
NextCount(n) == IF n <= MaxIter THEN n + 1 ELSE n

\* The round limit treated as a failure: an error raised at the cutoff.
RoundRaisesAtLimit ==
    /\ pc = "round"
    /\ LET new_labels == _updated_labels(labels, edges)
           n_updates == _n_updates(labels, new_labels)
       IN  IF Count(labels) # Count(new_labels)
           THEN /\ err' = "AssertionError"
                /\ pc' = "error"
                /\ UNCHANGED <<labels, i, state, int_labels>>
           ELSE IF n_updates = 0
           THEN /\ int_labels' = labels
                /\ state' = "Converged"
                /\ pc' = "restore"
                /\ UNCHANGED <<labels, i, err>>
           ELSE IF max_iter # None /\ i >= max_iter
           THEN /\ labels' = new_labels
                /\ err' = "NonConvergence"
                /\ state' = "MaxIterReached"
                /\ pc' = "error"
                /\ UNCHANGED <<i, int_labels>>
           ELSE /\ labels' = new_labels
                /\ i' = NextCount(i)
                /\ UNCHANGED <<pc, state, int_labels, err>>
    /\ UNCHANGED <<edge_columns, raw_edges, max_iter, nodes, f, edges, result>>
    /\ UNCHANGED <<set_cover_vars, returned_labels>>

\* The cutoff taken before `labels = new_labels`: the previous round's
\* labelling returned.
RoundReturnsOldLabels ==
    /\ pc = "round"
    /\ LET new_labels == _updated_labels(labels, edges)
           n_updates == _n_updates(labels, new_labels)
       IN  IF Count(labels) # Count(new_labels)
           THEN /\ err' = "AssertionError"
                /\ pc' = "error"
                /\ UNCHANGED <<labels, i, state, int_labels>>
           ELSE IF n_updates = 0
           THEN /\ int_labels' = labels
                /\ state' = "Converged"
                /\ pc' = "restore"
                /\ UNCHANGED <<labels, i, err>>
           ELSE IF max_iter # None /\ i >= max_iter
           THEN /\ labels' = new_labels
                /\ int_labels' = labels
                /\ state' = "MaxIterReached"
                /\ pc' = "restore"
                /\ UNCHANGED <<i, err>>
           ELSE /\ labels' = new_labels
                /\ i' = NextCount(i)
                /\ UNCHANGED <<pc, state, int_labels, err>>
    /\ UNCHANGED <<edge_columns, raw_edges, max_iter, nodes, f, edges, result>>
    /\ UNCHANGED <<set_cover_vars, returned_labels>>

\* The limit compared with `i > max_iter`: one round more than max_iter.
RoundLimitOffByOne ==
    /\ pc = "round"
    /\ LET new_labels == _updated_labels(labels, edges)
           n_updates == _n_updates(labels, new_labels)
       IN  IF Count(labels) # Count(new_labels)
           THEN /\ err' = "AssertionError"
                /\ pc' = "error"
                /\ UNCHANGED <<labels, i, state, int_labels>>
           ELSE IF n_updates = 0
           THEN /\ int_labels' = labels
                /\ state' = "Converged"
                /\ pc' = "restore"
                /\ UNCHANGED <<labels, i, err>>
           ELSE IF max_iter # None /\ i > max_iter
           THEN /\ labels' = new_labels
                /\ int_labels' = new_labels
                /\ state' = "MaxIterReached"
                /\ pc' = "restore"
                /\ UNCHANGED <<i, err>>
           ELSE /\ labels' = new_labels
                /\ i' = NextCount(i)
                /\ UNCHANGED <<pc, state, int_labels, err>>
    /\ UNCHANGED <<edge_columns, raw_edges, max_iter, nodes, f, edges, result>>
    /\ UNCHANGED <<set_cover_vars, returned_labels>>

\* lines 101-109: one iteration of the loop
Round ==
    /\ pc = "round"
    /\ LET new_labels == _updated_labels(labels, edges)
           n_updates == _n_updates(labels, new_labels)
       IN  IF Count(labels) # Count(new_labels)
           THEN /\ err' = "AssertionError"
                /\ pc' = "error"
                /\ UNCHANGED <<labels, i, state, int_labels>>
           ELSE IF n_updates = 0
           THEN /\ int_labels' = labels
                /\ state' = "Converged"
                /\ pc' = "restore"
                /\ UNCHANGED <<labels, i, err>>
           ELSE IF max_iter # None /\ i >= max_iter
           THEN /\ labels' = new_labels
                /\ int_labels' = new_labels
                /\ state' = "MaxIterReached"
                /\ pc' = "restore"
                /\ UNCHANGED <<i, err>>
           ELSE /\ labels' = new_labels
                /\ i' = NextCount(i)
                /\ UNCHANGED <<pc, state, int_labels, err>>
    /\ UNCHANGED <<edge_columns, raw_edges, max_iter, nodes, f, edges, result>>
    /\ UNCHANGED <<set_cover_vars, returned_labels>>

\* line 89
Restore ==
    /\ pc = "restore"
    /\ result' = decode(f, int_labels)
    /\ pc' = "nodes"
    /\ UNCHANGED <<edge_columns, raw_edges, max_iter, nodes, f, edges, labels, i,
                   state, int_labels, err>>
    /\ UNCHANGED <<set_cover_vars, returned_labels>>

\* lines 90, 92 with nodes=None
ReturnLabels ==
    /\ pc = "nodes"
    /\ pc' = "done"
    /\ UNCHANGED <<edge_columns, raw_edges, max_iter, nodes, f, edges, labels, i,
                   state, int_labels, result, err>>
    /\ UNCHANGED <<set_cover_vars, returned_labels>>

\* lines 90-92 with a universe.  Over an empty labelling the scalar of
\* component.max() is null: `1 + None` raises TypeError where execute()
\* gives None, and every added label is NaN where it gives NaN.
AddLabelsForMissingNodes ==
    /\ pc = "nodes"
    /\ \E ns \in NodesInputs :
        /\ nodes' = [given |-> TRUE, columns |-> {"record_id"}, rows |-> ns]
        /\ IF max_existing_label(result) = None
           THEN \/ /\ err' = "TypeError"
                   /\ pc' = "error"
                   /\ UNCHANGED result
                \/ /\ result' = BagOfAll(LAMBDA n : <<n, NaN>>, ns)
                   /\ pc' = "done"
                   /\ UNCHANGED err
           ELSE \E nodes_rows \in RowOrders(ns) :
                   /\ result' = _add_labels_for_missing_nodes(result, nodes_rows)
                   /\ pc' = "done"
                   /\ UNCHANGED err
    /\ UNCHANGED <<edge_columns, raw_edges, max_iter, f, edges, labels, i, state,
                   int_labels>>
    /\ UNCHANGED <<set_cover_vars, returned_labels>>

\* connected_components(edges, max_iter=...)
Next ==
    \/ IntifyEdges
    \/ GetInitialLabels
    \/ Round
    \/ Restore
    \/ ReturnLabels

Spec == Init /\ [][Next]_vars

\* connected_components(edges), max_iter left at None.  The caller blocks
\* until the call returns: a step that can be taken is taken.
InitNoLimit == Init /\ max_iter = None

FairSpec == InitNoLimit /\ [][Next]_vars /\ WF_vars(Next)

\* The same calls, for what holds of every round of the unlimited loop.
SpecNoLimit == InitNoLimit /\ [][Next]_vars

\* connected_components(edges, nodes=..., max_iter=...)
InitWithNodes ==
    /\ edge_columns = EdgeColumns
    /\ raw_edges \in EdgeInputsWithNodes
    /\ max_iter \in MaxIterInputs
    /\ nodes = NoNodes
    /\ pc = "intify"
    /\ f = <<>>
    /\ edges = EmptyBag
    /\ labels = EmptyBag
    /\ i = 0
    /\ state = "Propagating"
    /\ int_labels = EmptyBag
    /\ result = EmptyBag
    /\ err = ""
    /\ SetCoverNotCalled
    /\ returned_labels = EmptyBag

NextWithNodes ==
    \/ IntifyEdges
    \/ GetInitialLabels
    \/ Round
    \/ Restore
    \/ ReturnLabels
    \/ AddLabelsForMissingNodes

SpecWithNodes == InitWithNodes /\ [][NextWithNodes]_vars

\* The same calls with max_iter None or 1: run to the fixpoint, or cut
\* after the first round.
InitOneLimit == InitWithNodes /\ max_iter \in {None, 1}

SpecWithNodesOneLimit == InitOneLimit /\ [][NextWithNodes]_vars

\* `nodes` given as a table without a record_id column:
\* nodes.select("record_id") raises, at line 196.
SelectRecordIdFails ==
    /\ pc = "nodes"
    /\ \E ns \in NodesInputs :
          nodes' = [given |-> TRUE, columns |-> {"id"}, rows |-> ns]
    /\ err' = "SelectError"
    /\ pc' = "error"
    /\ UNCHANGED <<edge_columns, raw_edges, max_iter, f, edges, labels, i, state,
                   int_labels, result>>
    /\ UNCHANGED <<set_cover_vars, returned_labels>>

\* connected_components called with any edge table, one that lacks an
\* endpoint column included, and any universe.
InitAnyInput ==
    /\ edge_columns \in SUBSET EdgeColumns
    /\ raw_edges \in EdgeInputsAnyColumns
    /\ max_iter \in MaxIterInputs
    /\ nodes = NoNodes
    /\ pc = "intify"
    /\ f = <<>>
    /\ edges = EmptyBag
    /\ labels = EmptyBag
    /\ i = 0
    /\ state = "Propagating"
    /\ int_labels = EmptyBag
    /\ result = EmptyBag
    /\ err = ""
    /\ SetCoverNotCalled
    /\ returned_labels = EmptyBag

NextAnyInput ==
    \/ IntifyEdges
    \/ GetInitialLabels
    \/ Round
    \/ Restore
    \/ ReturnLabels
    \/ AddLabelsForMissingNodes
    \/ SelectRecordIdFails

SpecAnyInput == InitAnyInput /\ [][NextAnyInput]_vars

----------------------------------------------------------------------------
\* mismo.block._learner.set_cover as a state machine.  A Series of links is
\* the set of its values: every use drops the duplicates or is a set
\* operation of numpy.  An index is a Python index, from 0.

Elems == 1..NumElems

SetsInputs == SeqsUpTo(SUBSET Elems, MaxSets)

\* LinkSet.make(links, universe)
make(links, univ) ==
    [links |-> links, n_extra_covers |-> Cardinality(links \ univ)]

\* float("inf"); a cost is the fraction num / den, den > 0 when finite.
inf == [num |-> 1, den |-> 0]

\* The cost of a set without extra covers left positive: n_new_covers.
cost_not_negated(self, n_new_covers) ==
    IF n_new_covers = 0 THEN inf
    ELSE IF self.n_extra_covers = 0 THEN [num |-> n_new_covers, den |-> 1]
    ELSE [num |-> self.n_extra_covers, den |-> n_new_covers]

\* LinkSet.cost(self, n_new_covers)
cost(self, n_new_covers) ==
    IF n_new_covers = 0 THEN inf
    ELSE IF self.n_extra_covers = 0 THEN [num |-> 0 - n_new_covers, den |-> 1]
    ELSE [num |-> self.n_extra_covers, den |-> n_new_covers]

\* a < b for two costs.
less(a, b) == a.num * b.den < b.num * a.den

\* LinkSet.score(self, uncovered)
score(self, unc) ==
    LET new_covers == self.links \cap unc
    IN  [set |-> self, new_covers |-> new_covers,
         n_new_covers |-> Cardinality(new_covers),
         cost |-> cost(self, Cardinality(new_covers))]

\* np.argmin: the index of the first least element.
argmin(costs) ==
    (CHOOSE k \in DOMAIN costs :
        /\ \A j \in DOMAIN costs : ~less(costs[j], costs[k])
        /\ \A j \in 1..(k - 1) : less(costs[k], costs[j])) - 1

\* del list[idx]
del(list, idx) ==
    [k \in 1..(Len(list) - 1) |-> IF k <= idx THEN list[k] ELSE list[k + 1]]

\* The variables of connected_components.
connected_components_vars ==
    <<edge_columns, raw_edges, max_iter, nodes, pc, f, edges, labels, i,
      state, int_labels, result, err>>

\* Lines 72-76.
MakeCandidates ==
    /\ set_cover_pc = "make"
    /\ candidates' = [k \in DOMAIN sets |-> make(sets[k], universe)]
    /\ uncovered' = universe
    /\ set_cover_result' = <<>>
    /\ set_cover_pc' = "while"
    /\ UNCHANGED <<universe, sets>>
    /\ UNCHANGED <<connected_components_vars, returned_labels>>

\* One turn of `while True`, lines 77-86.
WhileTrue ==
    /\ set_cover_pc = "while"
    /\ LET scores == [k \in DOMAIN candidates |-> score(candidates[k], uncovered)]
           best_set_idx == argmin([k \in DOMAIN scores |-> scores[k].cost])
           best_set == scores[best_set_idx + 1]
       IN  IF \A k \in DOMAIN scores : scores[k].n_new_covers = 0
           THEN /\ set_cover_pc' = "done"
                /\ UNCHANGED <<candidates, uncovered, set_cover_result>>
           ELSE /\ set_cover_result' = Append(set_cover_result, best_set_idx)
                /\ candidates' = del(candidates, best_set_idx)
                /\ uncovered' = uncovered \ best_set.new_covers
                /\ UNCHANGED set_cover_pc
    /\ UNCHANGED <<universe, sets>>
    /\ UNCHANGED <<connected_components_vars, returned_labels>>

\* set_cover(universe, sets)
InitSetCover ==
    /\ edge_columns = EdgeColumns
    /\ raw_edges = EmptyBag
    /\ max_iter = None
    /\ nodes = NoNodes
    /\ pc = "idle"
    /\ f = <<>>
    /\ edges = EmptyBag
    /\ labels = EmptyBag
    /\ i = 0
    /\ state = "Propagating"
    /\ int_labels = EmptyBag
    /\ result = EmptyBag
    /\ err = ""
    /\ universe \in SUBSET Elems
    /\ sets \in SetsInputs
    /\ candidates = <<>>
    /\ uncovered = {}
    /\ set_cover_result = <<>>
    /\ set_cover_pc = "make"
    /\ returned_labels = EmptyBag

NextSetCover ==
    \/ MakeCandidates
    \/ WhileTrue

SpecSetCover == InitSetCover /\ [][NextSetCover]_vars

\* The call runs in the caller's thread until it returns: a turn of the
\* loop that can be taken is taken.
FairSpecSetCover == InitSetCover /\ [][NextSetCover]_vars /\ WF_vars(NextSetCover)

----------------------------------------------------------------------------
\* _updated_labels(node_labels, edges) called alone, on any labelling with
\* one row per node and any integer edge table: the nodes of the labelling
\* need not be the endpoints of the edges.

Codes == 0..(NumCodes - 1)

\* The labellings of the sets of nodes: one row <<record_id, component>> a node.
LabelInputs ==
    UNION {{SetToBag({<<n, l[n]>> : n \in N}) : l \in [N -> Codes]} :
             N \in SUBSET Codes}

IntEdgeInputs == BagsUpTo(Codes \X Codes, MaxEdgesAlone)

UpdatedLabels ==
    /\ pc = "updated_labels"
    /\ returned_labels' = _updated_labels(labels, edges)
    /\ pc' = "returned"
    /\ UNCHANGED <<edge_columns, raw_edges, max_iter, nodes, f, edges, labels, i,
                   state, int_labels, result, err>>
    /\ UNCHANGED set_cover_vars

InitUpdatedLabels ==
    /\ edge_columns = EdgeColumns
    /\ raw_edges = EmptyBag
    /\ max_iter = None
    /\ nodes = NoNodes
    /\ pc = "updated_labels"
    /\ f = <<>>
    /\ edges \in IntEdgeInputs
    /\ labels \in LabelInputs
    /\ i = 0
    /\ state = "Propagating"
    /\ int_labels = EmptyBag
    /\ result = EmptyBag
    /\ err = ""
    /\ SetCoverNotCalled
    /\ returned_labels = EmptyBag

NextUpdatedLabels == UpdatedLabels

SpecUpdatedLabels == InitUpdatedLabels /\ [][NextUpdatedLabels]_vars

----------------------------------------------------------------------------
\* The graph the edges induce, independently of the algorithm.

RECURSIVE ReachableFrom(_, _)
\* The nodes joined to a node of S by a path of the undirected graph of es.
ReachableFrom(es, S) ==
    LET T == S \cup {e[2] : e \in {x \in BagToSet(es) : x[1] \in S}}
               \cup {e[1] : e \in {x \in BagToSet(es) : x[2] \in S}}
    IN  IF T = S THEN S ELSE ReachableFrom(es, T)

Connected(es, a, b) == b \in ReachableFrom(es, {a})

\* The partition a labelling induces: the sets of record_ids per label.
Components(lbls) ==
    {{r[1] : r \in {q \in BagToSet(lbls) : q[2] = c}} :
        c \in {r[2] : r \in BagToSet(lbls)}}

\* The record_ids of a labelling.
RecordIds(lbls) == {r[1] : r \in BagToSet(lbls)}

\* Whether a round changes no label of the labelling.
IsFixpoint(lbls, es) == _n_updates(lbls, _updated_labels(lbls, es)) = 0

----------------------------------------------------------------------------
\* C1: with max_iter=None, two nodes of the returned labelling have the same
\* component label iff a path of the undirected graph of the edges joins
\* them; the docstring's edges give exactly {a,b,c,x,y,z} and {g,h}.
C1_SameLabelIffConnected ==
    (pc = "done" /\ max_iter = None) =>
        /\ \A r1 \in BagToSet(result) : \A r2 \in BagToSet(result) :
              (r1[2] = r2[2]) <=> Connected(raw_edges, r1[1], r2[1])
        /\ raw_edges = ExampleEdges =>
              Components(result) = {{1, 2, 3, 6, 7, 8}, {4, 5}}

C1_Witness ==
    /\ pc = "done" /\ max_iter = None
    /\ raw_edges = ExampleEdges
    /\ Components(result) = {{1, 2, 3, 6, 7, 8}, {4, 5}}

\* C2: with max_iter=None the loop always reaches a round in which no label
\* changes and returns in state Converged.
C2_EventuallyConverged == (max_iter = None) ~> (state = "Converged")

C2_Witness ==
    /\ max_iter = None /\ state = "Converged" /\ pc = "done"
    /\ \E r \in BagToSet(int_labels) : r[2] # r[1]

\* C3: after convergence with max_iter=None, the label of every node is the
\* least code among the nodes of its connected component.
C3_LabelIsMinCode ==
    (state = "Converged" /\ max_iter = None) =>
        \A r \in BagToSet(int_labels) : r[2] = Min(ReachableFrom(edges, {r[1]}))

C3_Witness ==
    /\ state = "Converged" /\ max_iter = None
    /\ \E r \in BagToSet(int_labels) :
          /\ r[2] # r[1]
          /\ <<r[2], r[1]>> \notin BagToSet(edges)
          /\ <<r[1], r[2]>> \notin BagToSet(edges)

\* The labelling connected_components holds before line 90 adds to it.
RestoredLabels == decode(f, int_labels)

\* The rows of the universe whose record_id has no label before line 90.
MissingNodes == BagToSet(nodes.rows) \ RecordIds(RestoredLabels)

\* The number of rows of the universe whose record_id has no label.
NumMissingRows ==
    BagCardinality([n \in MissingNodes |-> nodes.rows[n]])

\* The rows of a labelling whose record_id is in S, as a bag.
RowsOf(lbls, S) == [r \in {q \in BagToSet(lbls) : q[1] \in S} |-> lbls[r]]

\* C4: with a universe and a non-empty edge set, every universe node that is
\* in no edge is in the output, with a label no other node of the output has.
C4_MissingNodeLabelDisjoint ==
    (pc = "done" /\ nodes.given /\ raw_edges # EmptyBag) =>
        \A w \in BagToSet(nodes.rows) \ Endpoints(raw_edges) :
            /\ w \in RecordIds(result)
            /\ \A r \in BagToSet(result) : \A q \in BagToSet(result) :
                  (r[1] = w /\ q[1] # w) => r[2] # q[2]

C4_Witness ==
    /\ pc = "done" /\ nodes.given /\ raw_edges # EmptyBag
    /\ Cardinality(BagToSet(nodes.rows) \ Endpoints(raw_edges)) = 2
    /\ Cardinality(Endpoints(raw_edges)) >= 2

\* C5: every identifier of the edges and of the universe, and no other, is
\* in the output exactly once.
C5_OutputTotalFunction ==
    (pc = "done" /\ raw_edges # EmptyBag) =>
        /\ RecordIds(result) =
              Endpoints(raw_edges) \cup
                  (IF nodes.given THEN BagToSet(nodes.rows) ELSE {})
        /\ \A n \in RecordIds(result) : Count(RowsOf(result, {n})) = 1

\* C6: _add_labels_for_missing_nodes keeps every row of the labelling it is
\* given, and adds no row for a node that has a label already.
C6_LabelledNodesUntouched ==
    (pc = "done" /\ nodes.given) =>
        /\ \A r \in BagToSet(RestoredLabels) :
              CopiesIn(r, result) = CopiesIn(r, RestoredLabels)
        /\ RowsOf(result, RecordIds(RestoredLabels)) = RestoredLabels

C6_Witness ==
    /\ pc = "done" /\ nodes.given
    /\ BagToSet(nodes.rows) \cap RecordIds(RestoredLabels) # {}
    /\ MissingNodes # {}

\* C7: the rows of the universe without a label get the labels
\* max(existing labels) + 1 + r, r = 0, 1, ... their rank: each above every
\* existing label, no two equal.
C7_MintedLabels ==
    (pc = "done" /\ nodes.given /\ RestoredLabels # EmptyBag) =>
        LET added == RowsOf(result, MissingNodes)
            mx == Max({r[2] : r \in BagToSet(RestoredLabels)})
        IN  /\ Count(added) = NumMissingRows
            /\ \A r \in BagToSet(added) : added[r] = 1
            /\ {r[2] : r \in BagToSet(added)} =
                  {mx + 1 + k : k \in 0..(NumMissingRows - 1)}
            /\ \A n \in MissingNodes : Count(RowsOf(added, {n})) = nodes.rows[n]

C7_Witness ==
    /\ pc = "done" /\ nodes.given /\ RestoredLabels # EmptyBag
    /\ NumMissingRows = 2
    /\ \E r \in BagToSet(RestoredLabels) : r[2] > 0

\* C8: in every round the new labelling has as many rows as the previous
\* one, as many as there are distinct edge endpoints; the assertion of
\* line 102 never fails.
C8_RowCountConstant ==
    /\ err # "AssertionError"
    /\ pc \in {"round", "restore", "nodes", "done"} =>
          Count(labels) = Cardinality(Endpoints(edges))
    /\ pc = "round" => Count(_updated_labels(labels, edges)) = Count(labels)

C8_Witness ==
    /\ pc = "round" /\ i >= 2
    /\ Count(labels) >= 3
    /\ ~IsFixpoint(labels, edges)

\* C9: at the round limit, short of a fixpoint or not, the current
\* labelling is returned without an error, with a row for every edge node.
C9_MaxIterReturnsNormally ==
    state = "MaxIterReached" =>
        /\ err = "" /\ pc \in {"restore", "nodes", "done"}
        /\ int_labels = labels
        /\ RecordIds(int_labels) = Endpoints(edges)
        /\ \A r \in BagToSet(int_labels) : r[2] # NULL

C9_Witness ==
    /\ state = "MaxIterReached" /\ pc = "done" /\ err = ""
    /\ ~IsFixpoint(int_labels, edges)

RECURSIVE Propagate(_, _)
\* The labelling the loop returns with max_iter=None.
Propagate(lbls, es) ==
    LET new_labels == _updated_labels(lbls, es)
    IN  IF _n_updates(lbls, new_labels) = 0 THEN lbls
        ELSE Propagate(new_labels, es)

\* What connected_components(raw) returns.
ConvergedResult(raw) ==
    LET ie == _intify_edges(raw)
    IN  decode(ie.f, Propagate(_get_initial_labels(ie.edges), ie.edges))

\* The path a - c - b, and the edge a - c beside the self-edge of b.
PathEdges == SetToBag({<<1, 3>>, <<3, 2>>})

PairAndLoopEdges == SetToBag({<<1, 3>>, <<2, 2>>})

\* C10 as stated: a result returned at the round limit short of a fixpoint
\* can be told from a converged result by the returned value: no call that
\* converges returns the same value.
C10_ResultTellsNonConvergence ==
    (pc = "done" /\ state = "MaxIterReached" /\ ~IsFixpoint(int_labels, edges)) =>
        \A es \in EdgeInputs : ConvergedResult(es) # result

\* C10 amended: at the round limit the caller receives the current
\* labelling and nothing else; the value can be the one a converged call
\* returns (the path a - c - b cut after one round, and a - c with b alone).
C10_ReturnsLabellingOnly ==
    (pc = "done" /\ state = "MaxIterReached") =>
        /\ result = decode(f, labels)
        /\ (raw_edges = PathEdges /\ max_iter = 1) =>
              /\ ~IsFixpoint(int_labels, edges)
              /\ result = ConvergedResult(PairAndLoopEdges)

C10_Witness ==
    /\ pc = "done" /\ state = "MaxIterReached"
    /\ raw_edges = PathEdges /\ max_iter = 1
    /\ result = ConvergedResult(PairAndLoopEdges)

\* The tables of the 3-edge chain a - b - c - d, each edge listed in either
\* direction.
ChainABCD ==
    {SetToBag({e1, e2, e3}) : e1 \in {<<1, 2>>, <<2, 1>>},
                              e2 \in {<<2, 3>>, <<3, 2>>},
                              e3 \in {<<3, 4>>, <<4, 3>>}}

\* Whether an edge of the table joins a and b.
Adjacent(es, a, b) == <<a, b>> \in BagToSet(es) \/ <<b, a>> \in BagToSet(es)

\* C11: the chain a - b - c - d run with max_iter=1 returns, without an
\* error, a labelling that is no fixpoint and in which two distinct nodes
\* with the same label are the two ends of an edge.
C11_ChainOneRound ==
    (raw_edges \in ChainABCD /\ max_iter = 1) =>
        /\ err = "" /\ pc # "error"
        /\ pc = "done" =>
              /\ state = "MaxIterReached"
              /\ ~IsFixpoint(int_labels, edges)
              /\ RecordIds(result) = {1, 2, 3, 4}
              /\ \A r1 \in BagToSet(result) : \A r2 \in BagToSet(result) :
                    (r1[1] # r2[1] /\ r1[2] = r2[2]) =>
                        Adjacent(raw_edges, r1[1], r2[1])

C11_Witness ==
    /\ raw_edges = SetToBag({<<1, 2>>, <<2, 3>>, <<3, 4>>}) /\ max_iter = 1
    /\ pc = "done" /\ state = "MaxIterReached"
    /\ result = SetToBag({<<1, 0>>, <<2, 0>>, <<3, 1>>, <<4, 2>>})

----------------------------------------------------------------------------
\* Rounds and distances.

RECURSIVE Hops(_, _)
\* The edges of the longest of the shortest paths from a node of S: the
\* times S grows when the nodes one edge away are added.
Hops(es, S) ==
    LET T == S \cup {e[2] : e \in {x \in BagToSet(es) : x[1] \in S}}
               \cup {e[1] : e \in {x \in BagToSet(es) : x[2] \in S}}
    IN  IF T = S THEN 0 ELSE 1 + Hops(es, T)

\* The connected components of the graph, as sets of nodes.
NodeComponents(es) == {ReachableFrom(es, {a}) : a \in Endpoints(es)}

\* The greatest distance between two nodes of the component C.
Diameter(es, C) == Max({Hops(es, {a}) : a \in C})

\* The greatest diameter of a component of the graph.
MaxDiameter(es) == Max({0} \cup {Diameter(es, C) : C \in NodeComponents(es)})

\* The components with the most nodes, and the greatest diameter among them.
LargestComponents(es) ==
    {C \in NodeComponents(es) :
        \A C2 \in NodeComponents(es) : Cardinality(C2) <= Cardinality(C)}

DiameterOfLargest(es) ==
    Max({0} \cup {Diameter(es, C) : C \in LargestComponents(es)})

RECURSIVE ChangingRounds(_, _, _)
\* The rounds of the loop, run without a limit from the labelling lbls,
\* that change a label, counted up to `most`.
ChangingRounds(lbls, es, most) ==
    LET new_labels == _updated_labels(lbls, es)
    IN  IF most = 0 \/ _n_updates(lbls, new_labels) = 0 THEN 0
        ELSE 1 + ChangingRounds(new_labels, es, most - 1)

RECURSIVE Iterate(_, _, _)
\* The labelling after n applications of the propagation step.
Iterate(lbls, es, n) ==
    LET new_labels == _updated_labels(lbls, es)
    IN  IF n = 0 \/ new_labels = lbls THEN lbls
        ELSE Iterate(new_labels, es, n - 1)

\* The rounds counted before the count is given up: more than any
\* diameter of the graph.
MostRounds(es) == Cardinality(Endpoints(es)) + 1

\* C12 as stated: the rounds that change a label are at most the diameter
\* of the largest connected component, the one with the most nodes.
C12_RoundsWithinDiameterOfLargest ==
    (pc = "round" /\ i = 1) =>
        ChangingRounds(labels, edges, MostRounds(edges)) <= DiameterOfLargest(edges)

\* C12 amended: the rounds that change a label are at most the greatest
\* diameter of a connected component, and the labelling the loop returns is
\* the initial one after that many steps; in the star beside the path the
\* rounds are 3, one more than the diameter of the star.
C12_RoundsWithinMaxDiameter ==
    /\ (pc = "round" /\ i = 1) =>
          /\ ChangingRounds(labels, edges, MostRounds(edges)) <= MaxDiameter(edges)
          /\ raw_edges = StarAndPath =>
                /\ ChangingRounds(labels, edges, MostRounds(edges)) = 3
                /\ DiameterOfLargest(edges) = 2
    /\ pc = "restore" =>
          labels = Iterate(_get_initial_labels(edges), edges, MaxDiameter(edges))

C12_Witness ==
    /\ raw_edges = StarAndPath /\ max_iter = None
    /\ state = "Converged" /\ pc = "done"
    /\ ChangingRounds(_get_initial_labels(edges), edges, MostRounds(edges)) = 3

----------------------------------------------------------------------------
\* Chains.

\* The pairs of distinct nodes an edge joins.
Links(es) == {{e[1], e[2]} : e \in {x \in BagToSet(es) : x[1] # x[2]}}

\* The edges of the graph, each counted once whatever its direction and
\* its copies.
PathLength(es) == Cardinality(Links(es))

\* Whether the graph is a single chain: connected, without a self-edge,
\* one node more than edges, at most two edges at a node.
IsPath(es) ==
    /\ es # EmptyBag
    /\ \A e \in BagToSet(es) : e[1] # e[2]
    /\ Cardinality(NodeComponents(es)) = 1
    /\ Cardinality(Endpoints(es)) = PathLength(es) + 1
    /\ \A a \in Endpoints(es) : Cardinality({l \in Links(es) : a \in l}) <= 2

RECURSIVE CeilLog2(_)
\* The least n with 2^n >= k.
CeilLog2(k) == IF k <= 1 THEN 0 ELSE 1 + CeilLog2((k + 1) \div 2)

\* C13 as stated: a chain of k edges converges in about ceil(log2 k) rounds
\* plus a constant (here 2), for every assignment of codes.
C13_ChainRoundsLogarithmic ==
    (pc = "round" /\ i = 1 /\ IsPath(edges)) =>
        ChangingRounds(labels, edges, MostRounds(edges))
            <= CeilLog2(PathLength(edges)) + 2

\* C13 amended: a chain of k edges converges in at most k label-changing
\* rounds for every assignment of codes, and in exactly k rounds when the
\* codes increase along the chain: the rounds grow linearly with k.
C13_ChainRoundsLinear ==
    (pc = "round" /\ i = 1 /\ IsPath(edges)) =>
        /\ ChangingRounds(labels, edges, MostRounds(edges)) <= PathLength(edges)
        /\ raw_edges \in {Chain(k) : k \in 1..MaxChain} =>
              ChangingRounds(labels, edges, MostRounds(edges)) = PathLength(edges)

C13_Witness ==
    /\ raw_edges = Chain(MaxChain) /\ max_iter = None
    /\ state = "Converged" /\ pc = "done"
    /\ IsPath(edges) /\ PathLength(edges) = MaxChain
    /\ ChangingRounds(_get_initial_labels(edges), edges, MostRounds(edges)) = MaxChain
    /\ MaxChain > CeilLog2(MaxChain) + 2

----------------------------------------------------------------------------
\* Rejected inputs.

\* Whether the edge table lacks an endpoint column.
LacksEndpointColumn ==
    "record_id_l" \notin edge_columns \/ "record_id_r" \notin edge_columns

\* C14: an edge table that lacks record_id_l or record_id_r makes the call
\* raise ValueError with no labelling initialised, no round run and nothing
\* returned; no other input raises it.
C14_MissingColumnRaisesFirst ==
    /\ LacksEndpointColumn =>
          /\ pc \in {"intify", "error"}
          /\ pc = "error" => err = "ValueError"
          /\ edges = EmptyBag /\ f = <<>>
          /\ labels = EmptyBag /\ i = 0 /\ state = "Propagating"
          /\ int_labels = EmptyBag /\ result = EmptyBag
    /\ err = "ValueError" => LacksEndpointColumn

C14_Witness ==
    /\ edge_columns = {"record_id_l"} /\ raw_edges # EmptyBag
    /\ pc = "error" /\ err = "ValueError"
    /\ labels = EmptyBag /\ result = EmptyBag

\* C15: a universe without a record_id column, given with some edges, is
\* rejected before the first round: when the error is raised no labelling
\* is initialised and no round was run.
C15_UniverseRejectedBeforeRounds ==
    (pc = "error" /\ nodes.given /\ "record_id" \notin nodes.columns
        /\ raw_edges # EmptyBag) =>
        /\ labels = EmptyBag /\ i = 0 /\ state = "Propagating"
        /\ int_labels = EmptyBag

----------------------------------------------------------------------------
\* Determinism.

\* The propagation steps applied to the labelling the loop returns: enough
\* to reach the fixpoint without a limit, and with a limit one step for
\* every round run.
StepsRun(es, limit) ==
    IF limit = None THEN MostRounds(es) ELSE Max({1, limit})

\* C16: the partition returned is a function of the edge table, the
\* universe and max_iter: the labelling of the edges' nodes, as it is when
\* the universe is looked at, is the one the steps give from the rows of the
\* table, whatever their order, and every order in which the rows of the
\* universe are numbered gives the same partition.
C16_PartitionDeterministic ==
    /\ pc = "nodes" =>
          RestoredLabels =
              decode(_intify_edges(raw_edges).f,
                     Iterate(_get_initial_labels(_intify_edges(raw_edges).edges),
                             _intify_edges(raw_edges).edges,
                             StepsRun(_intify_edges(raw_edges).edges, max_iter)))
    /\ (pc = "done" /\ ~nodes.given) => result = RestoredLabels
    /\ (pc = "done" /\ nodes.given /\ RestoredLabels # EmptyBag) =>
          \A o \in RowOrders(nodes.rows) :
              Components(_add_labels_for_missing_nodes(RestoredLabels, o))
                  = Components(result)

C16_Witness ==
    /\ pc = "done" /\ nodes.given /\ RestoredLabels # EmptyBag
    /\ Cardinality(Components(RestoredLabels)) = 2
    /\ \E o \in RowOrders(nodes.rows) :
          /\ _add_labels_for_missing_nodes(RestoredLabels, o) # result
          /\ Components(_add_labels_for_missing_nodes(RestoredLabels, o))
                = Components(result)

----------------------------------------------------------------------------
\* Algebraic laws.

\* C17: the augmentation applied again, with the same universe, to the
\* labelling it returned gives that labelling: no row is added and no label
\* changes, whatever the order of the rows of the universe.
C17_AugmentationIdempotent ==
    (pc = "done" /\ nodes.given) =>
        \A o \in RowOrders(nodes.rows) :
            /\ _get_additional_labels(result, o) = EmptyBag
            /\ _add_labels_for_missing_nodes(result, o) = result

C17_Witness ==
    /\ pc = "done" /\ nodes.given /\ RestoredLabels # EmptyBag
    /\ MissingNodes # {}
    /\ Count(result) > Count(RestoredLabels)
    /\ \A o \in RowOrders(nodes.rows) :
          _add_labels_for_missing_nodes(result, o) = result

\* The rows that repeat an edge of the table or are a self-edge of one of
\* its nodes.
RedundantEdges(es) == BagToSet(es) \cup {<<n, n>> : n \in Endpoints(es)}

\* The nodes all of whose edges are self-edges.
OnlySelfEdges(es) ==
    {n \in Endpoints(es) :
        \A e \in BagToSet(es) : (e[1] = n \/ e[2] = n) => e[1] = e[2]}

\* What connected_components(raw, max_iter=limit) returns.
LimitedResult(raw, limit) ==
    LET ie == _intify_edges(raw)
    IN  decode(ie.f, Iterate(_get_initial_labels(ie.edges), ie.edges,
                             StepsRun(ie.edges, limit)))

\* C18: a row added to the edge table that repeats an edge, or is a
\* self-edge of a node of the table, changes neither the codes, nor the
\* initial labelling, nor the labelling a round makes of any labelling the
\* loop holds, nor the result; a node with self-edges only is returned alone
\* in its component, labelled with its own code.
C18_RedundantEdgesChangeNothing ==
    /\ pc = "round" =>
          LET initial_labels == _get_initial_labels(edges)
              new_labels == _updated_labels(labels, edges)
          IN  \A e \in RedundantEdges(edges) :
                  /\ _get_initial_labels(edges (+) SetToBag({e})) = initial_labels
                  /\ _updated_labels(labels, edges (+) SetToBag({e})) = new_labels
    /\ pc = "done" =>
          /\ result = LimitedResult(raw_edges, max_iter)
          /\ \A e \in RedundantEdges(raw_edges) :
                /\ _intify_edges(raw_edges (+) SetToBag({e})).f = f
                /\ LimitedResult(raw_edges (+) SetToBag({e}), max_iter) = result
          /\ \A n \in OnlySelfEdges(raw_edges) :
                \A r \in BagToSet(result) : (r[1] = n) <=> (r[2] = f[n])

C18_Witness ==
    /\ raw_edges = SetToBag({<<1, 2>>, <<3, 3>>}) (+) SetToBag({<<1, 2>>})
    /\ pc = "done" /\ state = "Converged"
    /\ OnlySelfEdges(raw_edges) = {3}
    /\ result = SetToBag({<<1, 0>>, <<2, 0>>, <<3, 2>>})
    /\ result = LimitedResult(SetToBag({<<1, 2>>, <<3, 3>>}), max_iter)

----------------------------------------------------------------------------
\* The round limit.

\* C19: with an integer max_iter, the labelling the loop returns is the
\* initial labelling after min(max_iter, R) propagation steps, R being the
\* rounds that change a label on the way to the fixpoint.
C19_MaxIterBoundsSteps ==
    (pc \in {"restore", "nodes", "done"} /\ max_iter # None) =>
        int_labels =
            Iterate(_get_initial_labels(edges), edges,
                    Min({max_iter,
                         ChangingRounds(_get_initial_labels(edges), edges,
                                        MostRounds(edges))}))

----------------------------------------------------------------------------
\* set_cover.

\* C20: the list set_cover returns holds indexes of the `sets` argument, no
\* index twice, and the sets at these indexes cover every element of the
\* universe that some set of the argument covers.
C20_IndexesCoverUniverse ==
    set_cover_pc = "done" =>
        /\ \A k \in DOMAIN set_cover_result :
              set_cover_result[k] \in 0..(Len(sets) - 1)
        /\ \A j \in DOMAIN set_cover_result : \A k \in DOMAIN set_cover_result :
              j # k => set_cover_result[j] # set_cover_result[k]
        /\ universe \cap UNION Range(sets)
              \subseteq UNION {sets[set_cover_result[k] + 1] :
                                 k \in DOMAIN set_cover_result}

----------------------------------------------------------------------------
\* The steps of the loop.

\* C21: the initial labelling, the one the first round starts from, has one
\* row for every node that is the left or the right endpoint of an edge, no
\* other row, and the node's own code as its label.
C21_InitialLabelIsCode ==
    (pc = "round" /\ i = 1) =>
        /\ labels = _get_initial_labels(edges)
        /\ RecordIds(labels) = Endpoints(edges)
        /\ \A r \in BagToSet(labels) : r[2] = r[1] /\ labels[r] = 1
        /\ Count(labels) = Cardinality(Endpoints(edges))

C21_Witness ==
    /\ pc = "round" /\ i = 1
    /\ raw_edges = SetToBag({<<1, 3>>, <<3, 2>>}) (+) SetToBag({<<1, 3>>})
    /\ labels = SetToBag({<<0, 0>>, <<1, 1>>, <<2, 2>>})

\* The label a labelling gives a node it has a row for.
LabelOf(lbls, n) == (CHOOSE r \in BagToSet(lbls) : r[1] = n)[2]

\* The least labels of the edges both of whose ends are labelled and one of
\* whose ends has the label c, all labels being those of lbls.
Representatives(lbls, es, c) ==
    {least(LabelOf(lbls, e[1]), LabelOf(lbls, e[2])) :
        e \in {x \in BagToSet(es) :
                 /\ x[1] \in RecordIds(lbls) /\ x[2] \in RecordIds(lbls)
                 /\ (LabelOf(lbls, x[1]) = c \/ LabelOf(lbls, x[2]) = c)}}

UntouchedLabelIsNull ==
    pc = "returned" =>
        /\ Count(returned_labels) = Count(labels)
        /\ \A r \in BagToSet(labels) :
              <<r[1], IF Representatives(labels, edges, r[2]) = {} THEN NULL
                      ELSE Min(Representatives(labels, edges, r[2]))>>
                  \in BagToSet(returned_labels)

\* The nodes to which the two labellings give different labels.
Differing(old_labels, new_labels) ==
    {n \in RecordIds(old_labels) :
        \E r \in BagToSet(old_labels) : \E q \in BagToSet(new_labels) :
            r[1] = n /\ q[1] = n /\ r[2] # q[2]}

\* C23: in every round the count _n_updates makes is the number of nodes
\* whose label the round changes; the round ends the loop in the state
\* Converged when the count is 0 and in no other case; the labelling
\* returned then is one the propagation step leaves as it is.
C23_ConvergedIffNoUpdate ==
    /\ [](pc = "round" =>
            _n_updates(labels, _updated_labels(labels, edges))
                = Cardinality(Differing(labels, _updated_labels(labels, edges))))
    /\ [](state = "Converged" =>
            /\ int_labels = labels
            /\ _updated_labels(int_labels, edges) = int_labels)
    /\ [][pc = "round" =>
            ((state' = "Converged")
                <=> (_n_updates(labels, _updated_labels(labels, edges)) = 0))]_vars

C23_Witness ==
    /\ state = "Converged" /\ pc = "done"
    /\ raw_edges = SetToBag({<<1, 2>>, <<2, 3>>})
    /\ int_labels = SetToBag({<<0, 0>>, <<1, 0>>, <<2, 0>>})
    /\ _n_updates(int_labels, _updated_labels(int_labels, edges)) = 0
    /\ _n_updates(_get_initial_labels(edges),
                  _updated_labels(_get_initial_labels(edges), edges)) = 2

\* The edge table with one row (u, v) replaced by (v, u).
Reversed(es, e) == (es (-) SetToBag({e})) (+) SetToBag({<<e[2], e[1]>>})

\* C24: an edge row (u, v) replaced by (v, u) changes neither the initial
\* labelling, nor the labelling a round makes of any labelling the loop
\* holds, nor the labelling the loop returns.
C24_EdgeDirectionIrrelevant ==
    /\ pc = "round" =>
          LET initial_labels == _get_initial_labels(edges)
              updated == _updated_labels(labels, edges)
          IN  \A e \in BagToSet(edges) :
                  /\ _get_initial_labels(Reversed(edges, e)) = initial_labels
                  /\ _updated_labels(labels, Reversed(edges, e)) = updated
    /\ pc = "restore" =>
          \A e \in BagToSet(edges) :
              Iterate(_get_initial_labels(Reversed(edges, e)), Reversed(edges, e),
                      MostRounds(edges)) = int_labels

C24_Witness ==
    /\ pc = "restore" /\ state = "Converged"
    /\ edges = SetToBag({<<0, 1>>, <<2, 1>>})
    /\ int_labels = SetToBag({<<0, 0>>, <<1, 0>>, <<2, 0>>})
    /\ Reversed(edges, <<2, 1>>) = SetToBag({<<0, 1>>, <<1, 2>>})
    /\ Iterate(_get_initial_labels(Reversed(edges, <<2, 1>>)),
               Reversed(edges, <<2, 1>>), MostRounds(edges)) = int_labels

\* The rows of the update map of the round about to run.
UpdateMap == _get_component_update_map(_get_component_equivalences(edges, labels))

\* C25: in every round every label a node holds is the component_old of
\* one row of the update map, so that the left join returns one row for
\* every node, none with a NULL label.
C25_EveryLabelIsKeyOnce ==
    pc = "round" =>
        /\ \A r \in BagToSet(labels) :
              Count(RowsOf(UpdateMap, {r[2]})) = 1
        /\ Count(_updated_labels(labels, edges)) = Count(labels)
        /\ \A n \in RecordIds(labels) :
              Count(RowsOf(_updated_labels(labels, edges), {n})) = 1
        /\ \A r \in BagToSet(_updated_labels(labels, edges)) : r[2] # NULL

C25_Witness ==
    /\ pc = "round" /\ i = 2
    /\ edges = SetToBag({<<0, 1>>, <<1, 2>>, <<2, 3>>})
    /\ labels = SetToBag({<<0, 0>>, <<1, 0>>, <<2, 1>>, <<3, 2>>})
    /\ UpdateMap = SetToBag({<<0, 0>>, <<1, 0>>, <<2, 1>>})

\* C26: the label a round gives a node is at most the label the node had,
\* so that the label of a node is never more than its code; and a round
\* after which the loop goes on has made the label of some node less.
C26_LabelsNeverIncrease ==
    /\ [](pc = "round" =>
            \A n \in RecordIds(labels) :
                LabelOf(_updated_labels(labels, edges), n) <= LabelOf(labels, n))
    /\ [](\A r \in BagToSet(labels) \cup BagToSet(int_labels) : r[2] <= r[1])
    /\ [][pc = "round" =>
            /\ \A n \in RecordIds(labels) :
                  /\ n \in RecordIds(labels')
                  /\ LabelOf(labels', n) <= LabelOf(labels, n)
            /\ pc' = "round" =>
                  \E n \in RecordIds(labels) :
                      LabelOf(labels', n) < LabelOf(labels, n)]_vars

C26_Witness ==
    /\ pc = "round" /\ i = 3
    /\ edges = SetToBag({<<0, 1>>, <<1, 2>>, <<2, 3>>})
    /\ labels = SetToBag({<<0, 0>>, <<1, 0>>, <<2, 0>>, <<3, 1>>})

\* A labelling of the nodes of the graph es in which the label of a node is
\* the code of a node of its connected component.
IsSound(lbls, es) ==
    /\ \A r \in BagToSet(lbls) : r[2] \in ReachableFrom(es, {r[1]})
    /\ \A r, q \in BagToSet(lbls) : r[2] = q[2] => Connected(es, r[1], q[1])

\* C27: the labelling of every round, and the one returned, at the max_iter
\* cutoff too, gives a node the code of a node of its connected component,
\* so that nodes of different components have different labels; and two
\* nodes that have the same label have the same label after every round.
C27_EveryLabellingSound ==
    /\ [](IsSound(labels, edges) /\ IsSound(int_labels, edges))
    /\ [][pc = "round" =>
            \A r, q \in BagToSet(labels) :
                r[2] = q[2] => LabelOf(labels', r[1]) = LabelOf(labels', q[1])]_vars

C27_Witness ==
    /\ state = "MaxIterReached" /\ max_iter = 1 /\ pc = "done"
    /\ edges = SetToBag({<<0, 1>>, <<1, 2>>, <<2, 3>>})
    /\ int_labels = SetToBag({<<0, 0>>, <<1, 0>>, <<2, 1>>, <<3, 2>>})

RECURSIVE Ball(_, _, _)
\* The nodes at most n edges away from a node of S.
Ball(es, S, n) ==
    IF n = 0 THEN S
    ELSE Ball(es, S \cup {e[2] : e \in {x \in BagToSet(es) : x[1] \in S}}
                     \cup {e[1] : e \in {x \in BagToSet(es) : x[2] \in S}}, n - 1)

\* C28: in every round the node of the least code of a component has its
\* own code as its label, and after t rounds every node at most t edges
\* away from it has that code as its label.
C28_MinimumLabelProgress ==
    /\ pc \in {"round", "restore"} =>
          \A C \in NodeComponents(edges) : LabelOf(labels, Min(C)) = Min(C)
    /\ (pc = "round" /\ i = 1) =>
          \A t \in 0..MostRounds(edges) : \A C \in NodeComponents(edges) :
              \A n \in Ball(edges, {Min(C)}, t) :
                  LabelOf(Iterate(labels, edges, t), n) = Min(C)

C28_Witness ==
    /\ pc = "round" /\ i = 2
    /\ edges = SetToBag({<<0, 1>>, <<1, 2>>, <<2, 3>>})
    /\ Ball(edges, {0}, 1) = {0, 1}
    /\ LabelOf(labels, 1) = 0 /\ LabelOf(labels, 0) = 0
    /\ LabelOf(labels, 3) = 2

\* C29 as stated: a call with no edge ends without an error after its first
\* round; it returns no row when no universe is given, and with a universe
\* one row for every node of the universe, no two rows with the same label.
C29_EmptyEdgesReturnSingletons ==
    (raw_edges = EmptyBag /\ pc \in {"done", "error"}) =>
        /\ pc = "done" /\ err = "" /\ state = "Converged" /\ i = 1
        /\ ~nodes.given => result = EmptyBag
        /\ nodes.given =>
              /\ RecordIds(result) = BagToSet(nodes.rows)
              /\ \A r \in BagToSet(result) : r[2] \notin {NULL, NaN}
              /\ \A r, q \in BagToSet(result) : r[2] = q[2] => r[1] = q[1]

\* What holds of a call with no edge: the loop ends in its first round
\* without an error and with no label; without a universe no row is
\* returned, and with a universe either the TypeError of `1 + None` is
\* raised or every row returned has the label NaN.
EmptyEdgesUniverseUnlabelled ==
    (raw_edges = EmptyBag /\ pc \in {"nodes", "done", "error"}) =>
        /\ state = "Converged" /\ i = 1 /\ int_labels = EmptyBag
        /\ pc = "nodes" => err = "" /\ result = EmptyBag
        /\ (pc = "done" /\ ~nodes.given) => err = "" /\ result = EmptyBag
        /\ (pc = "done" /\ nodes.given) =>
              result = BagOfAll(LAMBDA n : <<n, NaN>>, nodes.rows)
        /\ pc = "error" => nodes.given /\ err = "TypeError"

----------------------------------------------------------------------------
\* The greedy loop of set_cover.

\* The elements of the candidate at the Python index idx that are not
\* covered yet.
NewCovers(idx) == candidates[idx + 1].links \cap uncovered

\* The Python indexes of the candidates that cover an uncovered element and
\* no element outside the universe.
WithoutExtraCovers ==
    {idx \in 0..(Len(candidates) - 1) :
        NewCovers(idx) # {} /\ candidates[idx + 1].links \subseteq universe}

\* The index the turn of the loop being taken has appended to the result.
Picked == set_cover_result'[Len(set_cover_result')]

\* C30: the loop of set_cover ends.  A turn of it that finds no candidate
\* covering an uncovered element ends the loop, changing nothing; any
\* other turn picks a candidate that covers an uncovered element, removes
\* it from the candidates and the elements it covers from the uncovered
\* ones, which get fewer; and when some candidate covers uncovered
\* elements and nothing outside the universe, the candidate picked is such
\* a one, with the most new covers among them.
C30_GreedyLoopTerminates ==
    /\ <>(set_cover_pc = "done")
    /\ [][set_cover_pc = "while" =>
            IF \A idx \in 0..(Len(candidates) - 1) : NewCovers(idx) = {}
            THEN /\ set_cover_pc' = "done"
                 /\ UNCHANGED <<candidates, uncovered, set_cover_result>>
            ELSE /\ set_cover_pc' = "while"
                 /\ Len(set_cover_result') = Len(set_cover_result) + 1
                 /\ SubSeq(set_cover_result', 1, Len(set_cover_result)) = set_cover_result
                 /\ Picked \in 0..(Len(candidates) - 1)
                 /\ NewCovers(Picked) # {}
                 /\ Len(candidates') = Len(candidates) - 1
                 /\ \A k \in 1..Len(candidates') :
                       candidates'[k] = candidates[IF k <= Picked THEN k ELSE k + 1]
                 /\ uncovered' = uncovered \ NewCovers(Picked)
                 /\ uncovered' # uncovered /\ uncovered' \subseteq uncovered
                 /\ WithoutExtraCovers # {} =>
                       /\ Picked \in WithoutExtraCovers
                       /\ \A idx \in WithoutExtraCovers :
                             Cardinality(NewCovers(idx)) <= Cardinality(NewCovers(Picked))]_vars

C30_Witness ==
    /\ set_cover_pc = "done"
    /\ universe = {1, 2} /\ sets = <<{1, 2, 3}, {1, 2}>>
    /\ set_cover_result = <<1>>
    /\ Len(candidates) = 1 /\ uncovered = {}

====
